---- MODULE Spec2Model ----
(***************************************************************************)
(* A model of IPython.config.application: the Application singleton, its   *)
(* canonical Config, the command-line and file loading steps, the          *)
(* log_level hook and the boolean_flag helper.                             *)
(*                                                                         *)
(* Objects live in a heap (object id -> contents) so that copying and      *)
(* in-place mutation are different things.  Config trees are functions     *)
(* component -> (setting -> value).  The loaders, Config._merge and the    *)
(* trait machinery are not part of application.py; they are modelled from  *)
(* the configuration specification (sections 4.1, 4.2, 4.4).               *)
(***************************************************************************)
EXTENDS Integers, Sequences, FiniteSets, TLC

VARIABLES
    pc,           \* "new" | "ready" | "exited" | "crashed"
    sys_argv,     \* sys.argv[1:], fixed when the process starts
    flags,        \* Application.flags
    classes,      \* Application.classes
    heap,         \* object id -> contents of a Config object
    config,       \* Application.config: the id of the canonical Config
    log_level,    \* Application.log_level
    log,          \* threshold of Application.log, NoLogger before init_logging
    exit_status,  \* status given to sys.exit, NoExit while running
    ops,          \* number of calls the host still makes
    held,         \* objects a caller still holds: id -> contents when handed over
    last          \* what the last call did (its input, what it saw, how it ended)

vars == <<pc, sys_argv, flags, classes, heap, config, log_level, log,
          exit_status, ops, held, last>>

----------------------------------------------------------------------------
(* Bounds of the model *)

MaxArgv == 2
MaxFlagArgv == 3
MaxOps == 2
MaxSeqOps == 3

----------------------------------------------------------------------------
(* Program constants *)

WARN == 30
DEBUG == 10
INFO == 20
NoLogger == -1
NoExit == -1

LogLevels == {0, 10, 20, 30, 40, 50}

Aliases == [log_level |-> "Application.log_level"]

\* config=True traits of each component class
ConfigTraits == [Application |-> {"log_level"}, X |-> {"n", "t"}]

\* class attribute `classes` of the modelled application, before __init__
DeclaredClasses == <<"X">>

TraitDefault == [Application |-> [log_level |-> WARN], X |-> [n |-> 0, t |-> 0]]

----------------------------------------------------------------------------
(* Config trees *)

EmptyTree == [k \in {} |-> [s \in {} |-> 0]]

Sec1(s, v) == [x \in {s} |-> v]
Sec2(s1, v1, s2, v2) == [x \in {s1, s2} |-> IF x = s1 THEN v1 ELSE v2]
Tree1(c, sec) == [x \in {c} |-> sec]
Tree2(c1, sec1, c2, sec2) == [x \in {c1, c2} |-> IF x = c1 THEN sec1 ELSE sec2]

\* a top-level entry whose value is not a mapping
Scalar(v) == Sec1("__scalar__", v)
IsSection(sec) == "__scalar__" \notin DOMAIN sec
IsTree(t) == \A k \in DOMAIN t : IsSection(t[k])

Has(t, c, s) == c \in DOMAIN t /\ s \in DOMAIN t[c]

_merge_section(a, b) ==
    [s \in DOMAIN a \cup DOMAIN b |-> IF s \in DOMAIN b THEN b[s] ELSE a[s]]

\* Config._merge: the merged contents
_merge(base, incoming) ==
    [k \in DOMAIN base \cup DOMAIN incoming |->
        IF k \notin DOMAIN incoming THEN base[k]
        ELSE IF k \notin DOMAIN base THEN incoming[k]
        ELSE _merge_section(base[k], incoming[k])]

----------------------------------------------------------------------------
(* The Application object and its trait handlers.                          *)
(* An object state `self` is a record                                      *)
(*   [heap, config, log_level, log, notes, hook_without_logger];           *)
(* a handler returns [self, raised, what]: the state it leaves and the     *)
(* exception it raised ("" when it returned normally).                     *)

Paths == UNION {{<<c, s>> : s \in ConfigTraits[c]} : c \in DOMAIN ConfigTraits}

NoNotes == [p \in Paths |-> 0]

Ok(self) == [self |-> self, raised |-> "", what |-> ""]
Raise(self, exc, what) == [self |-> self, raised |-> exc, what |-> what]

\* smallest object id not in use
NewId(h) == CHOOSE i \in 1..(Cardinality(DOMAIN h) + 1) :
                i \notin DOMAIN h /\ \A j \in 1..(i - 1) : j \in DOMAIN h

\* a new object with the given contents: [heap, ref]
Alloc(h, contents) ==
    LET i == NewId(h) IN [heap |-> [x \in DOMAIN h \cup {i} |->
                                       IF x = i THEN contents ELSE h[x]],
                          ref |-> i]

\* copy.deepcopy of a Config object: a new object with equal contents
deepcopy(h, ref) == Alloc(h, h[ref])

\* the value a component reads for one of its settings
Resolve(t, c, s) == IF Has(t, c, s) THEN t[c][s] ELSE TraitDefault[c][s]

\* every exposed setting's resolved value; Application.log_level is the live trait
Resolved(t, level, cls) ==
    [p \in {q \in Paths : \E i \in DOMAIN cls : cls[i] = q[1]} |->
        IF p = <<"Application", "log_level">> THEN level
        ELSE Resolve(t, p[1], p[2])]

\* variant: the threshold is set to the value being replaced
_log_level_changed_old(self, old, new) ==
    IF self.log = NoLogger
    THEN Raise([self EXCEPT !.hook_without_logger = TRUE], "AttributeError", "log")
    ELSE Ok([self EXCEPT !.log = old])

_log_level_changed(self, old, new) ==
    IF self.log = NoLogger
    THEN Raise([self EXCEPT !.hook_without_logger = TRUE], "AttributeError", "log")
    ELSE Ok([self EXCEPT !.log = new])

\* assignment to the log_level trait: validate, store, notify on change
set_log_level(self, value) ==
    IF value \notin LogLevels THEN Raise(self, "TraitError", "log_level")
    ELSE IF value = self.log_level THEN Ok(self)
    ELSE _log_level_changed(
            [self EXCEPT !.log_level = value,
                         !.notes[<<"Application", "log_level">>] = @ + 1],
            self.log_level, value)

\* Configurable._config_changed: load my section of the new config into my traits
Configurable_config_changed(self, new) ==
    IF Has(new, "Application", "log_level")
    THEN set_log_level(self, new["Application"]["log_level"])
    ELSE Ok(self)

_config_changed(self, old, new) ==
    LET r == Configurable_config_changed(self, new) IN
    IF r.raised # "" THEN r
    ELSE IF r.self.log = NoLogger THEN Raise(r.self, "AttributeError", "log")
    ELSE r

\* notifications of the other exposed components' settings that changed value
ComponentNotes(notes, old, new) ==
    [p \in Paths |->
        IF p[1] # "Application" /\ Resolve(new, p[1], p[2]) # Resolve(old, p[1], p[2])
        THEN notes[p] + 1 ELSE notes[p]]

\* assignment to the config trait: swap the canonical object and notify on change
set_config(self, ref) ==
    LET old == self.heap[self.config]
        new == self.heap[ref] IN
    IF new = old THEN Ok(self)
    ELSE _config_changed(
            [self EXCEPT !.config = ref,
                         !.notes = ComponentNotes(self.notes, old, new)],
            old, new)

\* Config._merge raises on an incoming tree that is no mapping of mappings
_merge_fails(base, incoming) == ~IsTree(incoming)

\* variant: the merge is done on the canonical object itself, without the copy
update_config_in_place(self, cfg) ==
    LET incoming == self.heap[cfg]
        mergeable == [k \in {x \in DOMAIN incoming : IsSection(incoming[x])} |-> incoming[k]] IN
    IF _merge_fails(self.heap[self.config], incoming)
    THEN Raise([self EXCEPT !.heap[self.config] = _merge(@, mergeable)], "MergeError", "")
    ELSE set_config([self EXCEPT !.heap[self.config] = _merge(@, incoming)], self.config)

\* variant: the current config is merged into the incoming one's values
update_config_left_biased(self, cfg) ==
    LET c == deepcopy(self.heap, self.config)
        newconfig == c.ref
        incoming == c.heap[cfg] IN
    IF _merge_fails(c.heap[newconfig], incoming)
    THEN Raise([self EXCEPT !.heap = c.heap], "MergeError", "")
    ELSE set_config(
            [self EXCEPT !.heap = [c.heap EXCEPT ![newconfig] = _merge(incoming, @)]],
            newconfig)

update_config(self, cfg) ==
    LET c == deepcopy(self.heap, self.config)
        newconfig == c.ref
        incoming == c.heap[cfg] IN
    IF _merge_fails(c.heap[newconfig], incoming)
    THEN Raise([self EXCEPT !.heap = c.heap], "MergeError", "")
    ELSE set_config(
            [self EXCEPT !.heap = [c.heap EXCEPT ![newconfig] = _merge(@, incoming)]],
            newconfig)

init_logging(self) == [self EXCEPT !.log = self.log_level]

----------------------------------------------------------------------------
(* Command-line tokens, the flag table and the loaders *)

\* a token as the tokenizer hands it over: its text and its parts
Short(text) == [text |-> text, kind |-> "short", name |-> "", value |-> ""]
Flag(text, name) == [text |-> text, kind |-> "flag", name |-> name, value |-> ""]
KV(text, name, value) == [text |-> text, kind |-> "kv", name |-> name, value |-> value]
Word(text) == [text |-> text, kind |-> "word", name |-> "", value |-> ""]

T_h == Short("-h")
T_help == Flag("--help", "help")
T_help_all == Flag("--help-all", "help-all")
T_version == Flag("--version", "version")
T_debug == Flag("--debug", "debug")
T_no_debug == Flag("--no-debug", "no-debug")
T_extra == Flag("--extra", "extra")
T_bogus == Flag("--bogus", "bogus")
T_level10 == KV("Application.log_level=10", "Application.log_level", "10")
T_alias20 == KV("log_level=20", "log_level", "20")
T_n1 == KV("X.n=1", "X.n", "1")
T_n2 == KV("X.n=2", "X.n", "2")
T_t1 == KV("X.t=1", "X.t", "1")
T_t0 == KV("X.t=0", "X.t", "0")
T_foo == KV("Foo.bar=1", "Foo.bar", "1")
T_name == KV("Application.name=1", "Application.name", "1")
T_badvalue == KV("X.n=[", "X.n", "[")
T_junk == Word("junk")

\* 'Class.trait'.split('.')
PathOf == [x \in {"Application.log_level", "Application.name", "X.n", "X.t", "Foo.bar"} |->
             CASE x = "Application.log_level" -> <<"Application", "log_level">>
               [] x = "Application.name" -> <<"Application", "name">>
               [] x = "X.n" -> <<"X", "n">>
               [] x = "X.t" -> <<"X", "t">>
               [] x = "Foo.bar" -> <<"Foo", "bar">>]

\* the value of a literal text; texts outside the table do not evaluate
LiteralOf == [x \in {"0", "1", "2", "10", "20"} |->
                CASE x = "0" -> 0 [] x = "1" -> 1 [] x = "2" -> 2
                  [] x = "10" -> 10 [] x = "20" -> 20]

\* 'no-' + name
NoPrefixed == [debug |-> "no-debug"]

\* one entry of the flag table: a tuple of `len` elements, (patch, help) when len = 2
FlagEntry(len, patch_type, patch, help_type, help) ==
    [len |-> len, patch_type |-> patch_type, patch |-> patch,
     help_type |-> help_type, help |-> help]

\* variant: the unsetter sets True as well
boolean_flag_both_true(name, configurable, set_help, unset_help) ==
    LET sh == IF set_help # "" THEN set_help ELSE "set True"
        uh == IF unset_help # "" THEN unset_help ELSE "set False"
        cls == PathOf[configurable][1]
        trait == PathOf[configurable][2]
        setter == Tree1(cls, Sec1(trait, 1)) IN
    [k \in {name, NoPrefixed[name]} |->
        IF k = name THEN FlagEntry(2, "Config", setter, "str", sh)
        ELSE FlagEntry(2, "Config", setter, "str", uh)]

boolean_flag(name, configurable, set_help, unset_help) ==
    LET sh == IF set_help # "" THEN set_help ELSE "set True"
        uh == IF unset_help # "" THEN unset_help ELSE "set False"
        cls == PathOf[configurable][1]
        trait == PathOf[configurable][2]
        setter == Tree1(cls, Sec1(trait, 1))
        unsetter == Tree1(cls, Sec1(trait, 0)) IN
    [k \in {name, NoPrefixed[name]} |->
        IF k = name THEN FlagEntry(2, "Config", setter, "str", sh)
        ELSE FlagEntry(2, "Config", unsetter, "str", uh)]

Loaded(tree) == [config |-> tree, raised |-> "", what |-> ""]
\* a failed load: loader.config holds what was applied before the failure
LoadError(exc, what, frag) == [config |-> frag, raised |-> exc, what |-> what]

\* step 1 of the command-line loader: the first token that is neither a flag of
\* the table nor a key-value token, 0 when there is none
FirstRejected(argv, flagtable) ==
    LET bad == {i \in DOMAIN argv :
                  ~ \/ argv[i].kind = "kv"
                    \/ argv[i].kind = "flag" /\ argv[i].name \in DOMAIN flagtable} IN
    IF bad = {} THEN 0 ELSE CHOOSE i \in bad : \A j \in bad : i <= j

\* the fully-qualified name a key-value token stands for
LongName(name, aliases) == IF name \in DOMAIN aliases THEN aliases[name] ELSE name

Exposed(cls, name) ==
    /\ name \in DOMAIN PathOf
    /\ \E i \in DOMAIN cls : cls[i] = PathOf[name][1]
    /\ PathOf[name][1] \in DOMAIN ConfigTraits
    /\ PathOf[name][2] \in ConfigTraits[PathOf[name][1]]

\* a flag's patch that is a tree is merged; any other mapping is copied key by key
ApplyPatch(frag, patch) ==
    IF IsTree(patch) THEN _merge(frag, patch)
    ELSE [k \in DOMAIN frag \cup DOMAIN patch |->
             IF k \in DOMAIN patch THEN patch[k] ELSE frag[k]]

\* steps 2 to 4: apply the tokens from the i-th on, left to right
RECURSIVE ApplyTokens(_, _, _, _, _, _)
ApplyTokens(argv, i, frag, aliases, flagtable, cls) ==
    IF i > Len(argv) THEN Loaded(frag)
    ELSE LET tok == argv[i] IN
         IF tok.kind = "flag"
         THEN ApplyTokens(argv, i + 1, ApplyPatch(frag, flagtable[tok.name].patch),
                          aliases, flagtable, cls)
         ELSE LET long == LongName(tok.name, aliases) IN
              IF ~Exposed(cls, long) THEN LoadError("UnknownSettingError", long, frag)
              ELSE IF tok.value \notin DOMAIN LiteralOf
                   THEN LoadError("ValueParseError", tok.text, frag)
              ELSE ApplyTokens(argv, i + 1,
                       _merge(frag, Tree1(PathOf[long][1],
                                          Sec1(PathOf[long][2], LiteralOf[tok.value]))),
                       aliases, flagtable, cls)

\* KeyValueConfigLoader(argv, aliases, flags).load_config(), validating against
\* the trait registries of the exposed classes
KeyValueConfigLoader(argv, aliases, flagtable, cls) ==
    LET r == FirstRejected(argv, flagtable) IN
    IF r # 0 THEN LoadError("ParseError", argv[r].text, EmptyTree)
    ELSE ApplyTokens(argv, 1, EmptyTree, aliases, flagtable, cls)

\* the files of the search path: what each holds
Files == {"x1.py", "x2.py", "level.py", "badlevel.py", "foo.py", "empty.py", "broken.py",
          "missing.py"}
FileTree == [f \in Files |->
    CASE f = "x1.py" -> Tree1("X", Sec1("n", 1))
      [] f = "x2.py" -> Tree1("X", Sec2("n", 2, "t", 1))
      [] f = "level.py" -> Tree1("Application", Sec1("log_level", DEBUG))
      [] f = "badlevel.py" -> Tree2("Application", Sec1("log_level", 7), "X", Sec1("n", 1))
      [] f = "foo.py" -> Tree2("Foo", Sec1("bar", 1), "X", Sec1("t", 0))
      [] OTHER -> EmptyTree]

\* PyFileConfigLoader(filename, path).load_config()
PyFileConfigLoader(filename) ==
    IF filename = "missing.py" THEN LoadError("NotFoundError", filename, EmptyTree)
    ELSE IF filename = "broken.py" THEN LoadError("LoadError", filename, EmptyTree)
    ELSE Loaded(FileTree[filename])

----------------------------------------------------------------------------
(* The Application's methods.  A method returns                            *)
(*   [self, raised, what, exit, loader_ran, updated, frag, frag_was]:      *)
(* the object state, the exception, the exit status asked of sys.exit, and *)
(* whether a loader ran, whether update_config was called, and the id and  *)
(* the contents of the fragment it was called with (0 when it was not).    *)

Result(r, exit, loader_ran, updated, frag, frag_was) ==
    [self |-> r.self, raised |-> r.raised, what |-> r.what, exit |-> exit,
     loader_ran |-> loader_ran, updated |-> updated, frag |-> frag,
     frag_was |-> frag_was]

\* Application.exit: log, then sys.exit
exit(self, status) ==
    IF self.log = NoLogger
    THEN Result(Raise(self, "AttributeError", "log"), NoExit, FALSE, FALSE, 0, EmptyTree)
    ELSE Result(Raise(self, "SystemExit", ""), status, FALSE, FALSE, 0, EmptyTree)

\* print_help, by way of print_alias_help: every alias is looked up among the
\* exposed classes and their config=True traits; the printing itself is output only
print_help(self, aliases, cls) ==
    LET unresolved == {a \in DOMAIN aliases :
                         \/ \A i \in DOMAIN cls : cls[i] # PathOf[aliases[a]][1]
                         \/ PathOf[aliases[a]][2] \notin ConfigTraits[PathOf[aliases[a]][1]]} IN
    IF unresolved = {} THEN Ok(self)
    ELSE Raise(self, "KeyError", CHOOSE a \in unresolved : TRUE)

In(text, argv) == \E i \in DOMAIN argv : argv[i].text = text

\* variant: update_config runs in a finally clause, with whatever the loader holds
parse_command_line_finally(self, argv, flagtable, cls) ==
    IF In("-h", argv) \/ In("--help", argv) \/ In("--help-all", argv)
    THEN LET printed == print_help(self, Aliases, cls) IN
         IF printed.raised # ""
         THEN Result(printed, NoExit, FALSE, FALSE, 0, EmptyTree)
         ELSE exit(self, 0)
    ELSE IF In("--version", argv)
    THEN exit(self, 0)
    ELSE LET loaded == KeyValueConfigLoader(argv, Aliases, flagtable, cls)
             c == Alloc(self.heap, loaded.config)
             u == update_config([self EXCEPT !.heap = c.heap], c.ref) IN
         IF loaded.raised # ""
         THEN Result(Raise(u.self, loaded.raised, loaded.what),
                     NoExit, TRUE, TRUE, c.ref, loaded.config)
         ELSE Result(u, NoExit, TRUE, TRUE, c.ref, loaded.config)

\* variant: a loader error is caught and what the loader holds is merged
parse_command_line_swallow(self, argv, flagtable, cls) ==
    IF In("-h", argv) \/ In("--help", argv) \/ In("--help-all", argv)
    THEN LET printed == print_help(self, Aliases, cls) IN
         IF printed.raised # ""
         THEN Result(printed, NoExit, FALSE, FALSE, 0, EmptyTree)
         ELSE exit(self, 0)
    ELSE IF In("--version", argv)
    THEN exit(self, 0)
    ELSE LET loaded == KeyValueConfigLoader(argv, Aliases, flagtable, cls)
             c == Alloc(self.heap, loaded.config) IN
         Result(update_config([self EXCEPT !.heap = c.heap], c.ref),
                NoExit, TRUE, TRUE, c.ref, loaded.config)

\* variant: help and version are looked for in the first token only
parse_command_line_first_token(self, argv, flagtable, cls) ==
    IF Len(argv) > 0 /\ argv[1].text \in {"-h", "--help", "--help-all"}
    THEN LET printed == print_help(self, Aliases, cls) IN
         IF printed.raised # ""
         THEN Result(printed, NoExit, FALSE, FALSE, 0, EmptyTree)
         ELSE exit(self, 0)
    ELSE IF Len(argv) > 0 /\ argv[1].text = "--version"
    THEN exit(self, 0)
    ELSE LET loaded == KeyValueConfigLoader(argv, Aliases, flagtable, cls) IN
         IF loaded.raised # ""
         THEN Result(Raise(self, loaded.raised, loaded.what), NoExit, TRUE, FALSE, 0, EmptyTree)
         ELSE LET c == Alloc(self.heap, loaded.config) IN
              Result(update_config([self EXCEPT !.heap = c.heap], c.ref),
                     NoExit, TRUE, TRUE, c.ref, loaded.config)

parse_command_line(self, argv, flagtable, cls) ==
    IF In("-h", argv) \/ In("--help", argv) \/ In("--help-all", argv)
    THEN LET printed == print_help(self, Aliases, cls) IN
         IF printed.raised # ""
         THEN Result(printed, NoExit, FALSE, FALSE, 0, EmptyTree)
         ELSE exit(self, 0)
    ELSE IF In("--version", argv)
    THEN exit(self, 0)
    ELSE LET loaded == KeyValueConfigLoader(argv, Aliases, flagtable, cls) IN
         IF loaded.raised # ""
         THEN Result(Raise(self, loaded.raised, loaded.what), NoExit, TRUE, FALSE, 0, EmptyTree)
         ELSE LET c == Alloc(self.heap, loaded.config) IN
              Result(update_config([self EXCEPT !.heap = c.heap], c.ref),
                     NoExit, TRUE, TRUE, c.ref, loaded.config)

load_config_file(self, filename) ==
    LET loaded == PyFileConfigLoader(filename) IN
    IF loaded.raised # ""
    THEN Result(Raise(self, loaded.raised, loaded.what), NoExit, TRUE, FALSE, 0, EmptyTree)
    ELSE LET c == Alloc(self.heap, loaded.config) IN
         Result(update_config([self EXCEPT !.heap = c.heap], c.ref),
                NoExit, TRUE, TRUE, c.ref, loaded.config)

\* variant: the length of the entry is not checked
FlagAsserts_no_len(value) ==
    /\ value.patch_type \in {"dict", "Config"}
    /\ value.help_type \in {"str", "unicode"}

\* the checks __init__ makes of one entry of self.flags
FlagAsserts(value) ==
    /\ value.len = 2
    /\ value.patch_type \in {"dict", "Config"}
    /\ value.help_type \in {"str", "unicode"}

\* keyword arguments of the constructor
Kwargs(has_config, cfg, has_level, level) ==
    [has_config |-> has_config, config |-> cfg, has_level |-> has_level, log_level |-> level]

NoKwargs == Kwargs(FALSE, EmptyTree, FALSE, WARN)

\* a new object, its traits at their defaults
NewObject ==
    [heap |-> [i \in {1} |-> EmptyTree], config |-> 1, log_level |-> WARN,
     log |-> NoLogger, notes |-> NoNotes, hook_without_logger |-> FALSE]

\* Configurable.__init__(**kwargs): the config keyword first, then the traits
Configurable__init__(self, kwargs) ==
    LET c == Alloc(self.heap, kwargs.config)
        r1 == IF kwargs.has_config
              THEN set_config([self EXCEPT !.heap = c.heap], c.ref)
              ELSE Ok(self) IN
    IF r1.raised # "" THEN r1
    ELSE IF kwargs.has_level THEN set_log_level(r1.self, kwargs.log_level)
    ELSE r1

\* Application.__init__: [self, raised, what, classes]
__init__(kwargs, flagtable) ==
    LET r == Configurable__init__(NewObject, kwargs)
        cls == <<"Application">> \o DeclaredClasses IN
    IF r.raised # ""
    THEN [self |-> r.self, raised |-> r.raised, what |-> r.what, classes |-> DeclaredClasses]
    ELSE IF \E key \in DOMAIN flagtable : ~FlagAsserts(flagtable[key])
    THEN [self |-> r.self, raised |-> "AssertionError",
          what |-> CHOOSE key \in DOMAIN flagtable : ~FlagAsserts(flagtable[key]),
          classes |-> cls]
    ELSE [self |-> init_logging(r.self), raised |-> "", what |-> "", classes |-> cls]

----------------------------------------------------------------------------
(* The state machine *)

Seqs(S, n) == UNION {[1..k -> S] : k \in 0..n}

NoHeld == [i \in {} |-> EmptyTree]

NoLast ==
    [op |-> "", argv |-> <<>>, file |-> "", level |-> 0, incoming |-> EmptyTree,
     before |-> EmptyTree, level_before |-> WARN, raised |-> "", what |-> "",
     exit |-> NoExit, loader_ran |-> FALSE, updated |-> FALSE, frag |-> 0,
     prev |-> 0, notes |-> NoNotes, hook_without_logger |-> FALSE]

InitWith(argvs, calls) ==
    /\ pc = "new"
    /\ sys_argv \in argvs
    /\ flags = [k \in {} |-> 0]
    /\ classes = DeclaredClasses
    /\ heap = NewObject.heap
    /\ config = NewObject.config
    /\ log_level = NewObject.log_level
    /\ log = NewObject.log
    /\ exit_status = NoExit
    /\ ops = calls
    /\ held = NoHeld
    /\ last = NoLast

\* the Application object as the variables hold it, at the start of a call
Self ==
    [heap |-> heap, config |-> config, log_level |-> log_level, log |-> log,
     notes |-> NoNotes, hook_without_logger |-> FALSE]

\* what the caller holds after a call that passed fragment r.frag to update_config:
\* the fragment, the object that was canonical, and the fragment of the call before
HeldAfter(r) ==
    LET earlier == IF last.frag # 0 /\ last.frag \in DOMAIN held THEN {last.frag} ELSE {}
        ids == {r.frag, config} \cup earlier IN
    [i \in ids |-> IF i = r.frag THEN r.frag_was
                   ELSE IF i = config THEN heap[config]
                   ELSE held[i]]

\* the effect of a method call on the variables
Finish(op, argv, file, level, r) ==
    LET h == IF r.updated THEN HeldAfter(r) ELSE held
        live == {r.self.config} \cup (DOMAIN h \cap DOMAIN r.self.heap) IN
    /\ pc' = IF r.exit # NoExit THEN "exited" ELSE "ready"
    /\ exit_status' = r.exit
    /\ heap' = [i \in live |-> r.self.heap[i]]
    /\ config' = r.self.config
    /\ log_level' = r.self.log_level
    /\ log' = r.self.log
    /\ held' = h
    /\ ops' = ops - 1
    /\ last' = [op |-> op, argv |-> argv, file |-> file, level |-> level,
                incoming |-> r.frag_was,
                before |-> heap[config], level_before |-> log_level,
                raised |-> r.raised, what |-> r.what, exit |-> r.exit,
                loader_ran |-> r.loader_ran, updated |-> r.updated,
                frag |-> IF r.updated THEN r.frag ELSE last.frag,
                prev |-> config, notes |-> r.self.notes,
                hook_without_logger |-> r.self.hook_without_logger]
    /\ UNCHANGED <<sys_argv, flags, classes>>

CanCall == pc = "ready" /\ ops > 0

\* app = Application(**kwargs), for an Application class declaring `flagtable`
Construct(kwargs, flagtable) ==
    /\ pc = "new"
    /\ LET r == __init__(kwargs, flagtable) IN
        /\ pc' = IF r.raised = "" THEN "ready" ELSE "crashed"
        /\ flags' = flagtable
        /\ classes' = r.classes
        /\ heap' = [i \in {r.self.config} |-> r.self.heap[i]]
        /\ config' = r.self.config
        /\ log_level' = r.self.log_level
        /\ log' = r.self.log
        /\ last' = [NoLast EXCEPT !.op = "__init__", !.raised = r.raised,
                                  !.what = r.what, !.incoming = kwargs.config,
                                  !.notes = r.self.notes,
                                  !.hook_without_logger = r.self.hook_without_logger]
    /\ UNCHANGED <<sys_argv, exit_status, ops, held>>

\* app.parse_command_line(): argv is None, sys.argv[1:] is parsed
ParseSysArgv ==
    /\ CanCall
    /\ Finish("parse_command_line", sys_argv, "", 0,
              parse_command_line(Self, sys_argv, flags, classes))

\* app.parse_command_line(argv)
ParseCommandLine(argv) ==
    /\ CanCall
    /\ Finish("parse_command_line", argv, "", 0,
              parse_command_line(Self, argv, flags, classes))

\* app.load_config_file(filename)
LoadConfigFile(filename) ==
    /\ CanCall
    /\ Finish("load_config_file", <<>>, filename, 0, load_config_file(Self, filename))

\* app.update_config(tree), the caller having built the Config object
UpdateConfig(tree) ==
    /\ CanCall
    /\ LET c == Alloc(heap, tree) IN
       Finish("update_config", <<>>, "", 0,
              Result(update_config([Self EXCEPT !.heap = c.heap], c.ref),
                     NoExit, FALSE, TRUE, c.ref, tree))

\* app.log_level = value
SetLogLevel(value) ==
    /\ CanCall
    /\ Finish("log_level", <<>>, "", value,
              Result(set_log_level(Self, value), NoExit, FALSE, FALSE, 0, EmptyTree))

----------------------------------------------------------------------------
(* The inputs drawn by the specifications *)

PatchGood == Tree1("X", Sec1("n", 2))
PatchFlat == Tree1("verbose", Scalar(1))

BooleanTable == boolean_flag("debug", "X.t", "", "")

WithExtra(entry) ==
    [k \in DOMAIN BooleanTable \cup {"extra"} |->
        IF k = "extra" THEN entry ELSE BooleanTable[k]]

FlagTables ==
    {BooleanTable,
     WithExtra(FlagEntry(2, "dict", PatchFlat, "str", "flat")),
     WithExtra(FlagEntry(2, "Config", PatchGood, "str", "")),
     WithExtra(FlagEntry(1, "Config", PatchGood, "NoneType", "")),
     WithExtra(FlagEntry(3, "Config", PatchGood, "str", "three")),
     WithExtra(FlagEntry(2, "list", EmptyTree, "str", "list")),
     WithExtra(FlagEntry(2, "Config", PatchGood, "NoneType", ""))}

KwargsSet ==
    {NoKwargs,
     Kwargs(FALSE, EmptyTree, TRUE, WARN),
     Kwargs(FALSE, EmptyTree, TRUE, DEBUG),
     Kwargs(TRUE, EmptyTree, FALSE, WARN),
     Kwargs(TRUE, Tree1("X", Sec1("n", 1)), FALSE, WARN),
     Kwargs(TRUE, Tree1("Application", Sec1("log_level", DEBUG)), FALSE, WARN)}

MainTokens == {T_help, T_extra, T_n1, T_alias20, T_foo, T_junk, T_badvalue}
MainArgvs == Seqs(MainTokens, MaxArgv)
ExplicitArgvs == {<<T_n2, T_level10>>, <<T_name>>, <<T_bogus, T_n2>>}
MainFiles == {"x2.py", "level.py", "badlevel.py", "missing.py"}
MainTrees == {EmptyTree, Tree2("Application", Sec1("log_level", INFO), "X", Sec1("t", 1)),
              PatchFlat}
LevelInputs == {DEBUG, WARN, 7}

Init == InitWith(MainArgvs, MaxOps)

Next ==
    \/ \E kwargs \in KwargsSet, flagtable \in FlagTables : Construct(kwargs, flagtable)
    \/ ParseSysArgv
    \/ \E argv \in ExplicitArgvs : ParseCommandLine(argv)
    \/ \E filename \in MainFiles : LoadConfigFile(filename)
    \/ \E tree \in MainTrees : UpdateConfig(tree)
    \/ \E value \in LevelInputs : SetLogLevel(value)

Spec == Init /\ [][Next]_vars

----------------------------------------------------------------------------
(* Narrower specifications: the flag tokens at greater length, the help    *)
(* and version tokens, and longer sequences of calls.                      *)

FlagTokens == {T_debug, T_no_debug, T_t1, T_t0, T_n1, T_n2}
FlagArgvs == Seqs(FlagTokens, MaxFlagArgv)
FlagFiles == {"x2.py", "foo.py"}

InitFlags == InitWith(FlagArgvs, MaxOps)

NextFlags ==
    \/ Construct(NoKwargs, BooleanTable)
    \/ ParseSysArgv
    \/ \E filename \in FlagFiles : LoadConfigFile(filename)

SpecFlags == InitFlags /\ [][NextFlags]_vars

HelpTokens == {T_h, T_help, T_help_all, T_version, T_n1, T_junk}
HelpArgvs == Seqs(HelpTokens, MaxArgv)
HelpFiles == {"x2.py", "level.py"}

InitHelp == InitWith(HelpArgvs, MaxOps)

NextHelp ==
    \/ Construct(NoKwargs, BooleanTable)
    \/ ParseSysArgv
    \/ \E filename \in HelpFiles : LoadConfigFile(filename)
    \/ \E value \in {DEBUG} : SetLogLevel(value)

SpecHelp == InitHelp /\ [][NextHelp]_vars

\* longer sequences of calls, over fewer inputs
SeqArgvs == {<<>>, <<T_alias20>>, <<T_n1, T_level10>>, <<T_foo>>}
SeqFiles == {"level.py", "badlevel.py"}
SeqTrees == {EmptyTree, Tree1("X", Sec1("n", 1)),
             Tree2("Application", Sec1("log_level", INFO), "X", Sec1("t", 1))}

InitSeq == InitWith(SeqArgvs, MaxSeqOps)

NextSeq ==
    \/ Construct(NoKwargs, BooleanTable)
    \/ ParseSysArgv
    \/ \E filename \in SeqFiles : LoadConfigFile(filename)
    \/ \E tree \in SeqTrees : UpdateConfig(tree)
    \/ \E value \in LevelInputs : SetLogLevel(value)

SpecSeq == InitSeq /\ [][NextSeq]_vars

----------------------------------------------------------------------------
(* Properties *)

Canonical == heap[config]

LoaderErrors ==
    {"ParseError", "UnknownSettingError", "ValueParseError", "NotFoundError", "LoadError"}

HasHelpToken(argv) ==
    \E i \in DOMAIN argv : argv[i].text \in {"-h", "--help", "--help-all", "--version"}

Keys(t, c) == IF c \in DOMAIN t THEN DOMAIN t[c] ELSE {}

\* C1: when parse_command_line or load_config_file fails because the loader
\* raised or the merge failed, the canonical config is the object and the
\* contents it was before the call, and the call raised no change notification.
C1_FailedLoadKeepsConfig ==
    (/\ last.op \in {"parse_command_line", "load_config_file"}
     /\ last.raised \in LoaderErrors \cup {"MergeError"})
    => /\ config = last.prev
       /\ Canonical = last.before
       /\ last.notes = NoNotes

C1_Witness ==
    /\ last.op = "parse_command_line"
    /\ last.raised = "UnknownSettingError"
    /\ Len(last.argv) = 2
    /\ last.before # EmptyTree
    /\ Canonical = last.before

\* C2: after update_config(incoming) the canonical config is the right-biased
\* structural merge of the previous canonical config with incoming: it has the
\* components of both, and each setting of either has incoming's value when
\* incoming defines it and the previous value otherwise.
C2_UpdateIsRightBiasedMerge ==
    (last.updated /\ last.raised = "")
    => /\ DOMAIN Canonical = DOMAIN last.before \cup DOMAIN last.incoming
       /\ \A c \in DOMAIN Canonical :
            /\ DOMAIN Canonical[c] = Keys(last.before, c) \cup Keys(last.incoming, c)
            /\ \A s \in DOMAIN Canonical[c] :
                 Canonical[c][s] = IF Has(last.incoming, c, s)
                                   THEN last.incoming[c][s]
                                   ELSE last.before[c][s]

C2_Witness ==
    /\ last.updated
    /\ last.before = Tree1("X", Sec1("n", 1))
    /\ last.incoming = Tree1("X", Sec2("n", 2, "t", 1))
    /\ Canonical = Tree1("X", Sec2("n", 2, "t", 1))

C4_HelpShortCircuits ==
    (last.op = "parse_command_line" /\ HasHelpToken(last.argv))
    => /\ ~last.loader_ran
       /\ ~last.updated
       /\ config = last.prev
       /\ Canonical = last.before
       /\ last.notes = NoNotes
       /\ pc = "exited"
       /\ exit_status = 0

C4_Witness ==
    /\ last.op = "parse_command_line"
    /\ last.argv = <<T_junk, T_version>>
    /\ last.before # EmptyTree
    /\ pc = "exited"

C5_Checked(entry) ==
    /\ entry.len = 2
    /\ entry.patch_type \in {"dict", "Config"}
    /\ entry.help_type \in {"str", "unicode"}

C5_WellFormed(entry) ==
    /\ C5_Checked(entry)
    /\ IsTree(entry.patch)
    /\ entry.help # ""

\* C5 as amended: construction succeeds only if every flag table entry is a pair
\* whose first element is a mapping and whose second element is text; any other
\* entry makes construction fail, so no parse_command_line or load_config_file
\* step runs with such a table.
C5_ConstructionChecksFlags ==
    /\ (pc \in {"ready", "exited"}) => \A k \in DOMAIN flags : C5_Checked(flags[k])
    /\ (last.op = "__init__" /\ \E k \in DOMAIN flags : ~C5_Checked(flags[k]))
         => pc = "crashed"
    /\ (last.op \in {"parse_command_line", "load_config_file"})
         => \A k \in DOMAIN flags : C5_Checked(flags[k])

C5_Witness ==
    /\ pc = "crashed"
    /\ last.raised = "AssertionError"
    /\ last.what = "extra"
    /\ flags["extra"].len = 3

\* C5 as stated: construction succeeds only if every flag table entry is a pair
\* of a mapping of mappings and a non-empty text.
C5_AsStated ==
    (pc \in {"ready", "exited"}) => \A k \in DOMAIN flags : C5_WellFormed(flags[k])

\* C6: once construction has completed, the threshold of the logger equals
\* Application.log_level in every state.
C6_ThresholdIsLogLevel ==
    (pc \in {"ready", "exited"}) => log = log_level

C6_Witness ==
    /\ pc = "ready"
    /\ last.op = "parse_command_line"
    /\ last.level_before = DEBUG
    /\ Has(last.before, "Application", "log_level")
    /\ log_level = INFO
    /\ log = INFO

C7_Known == {"Application.log_level", "X.n", "X.t"}

C7_Unknown(tok) ==
    tok.kind = "kv" /\ tok.name \notin DOMAIN Aliases /\ tok.name \notin C7_Known

C7_Valid(tok) ==
    \/ tok.kind = "flag" /\ tok.name \in DOMAIN flags
    \/ tok.kind = "kv" /\ ~C7_Unknown(tok) /\ tok.value \in DOMAIN LiteralOf

C7_Recognised(tok) ==
    tok.kind = "kv" \/ (tok.kind = "flag" /\ tok.name \in DOMAIN flags)

C8_Touches(tok, s) ==
    \/ s = "t" /\ tok.kind = "flag" /\ tok.name \in {"debug", "no-debug"}
    \/ tok.kind = "kv" /\ tok.name = "X.t" /\ s = "t"
    \/ tok.kind = "kv" /\ tok.name = "X.n" /\ s = "n"

C8_Value(tok) ==
    IF tok.kind = "flag" THEN (IF tok.name = "debug" THEN 1 ELSE 0)
    ELSE LiteralOf[tok.value]

C8_LastTouch(argv, s) ==
    LET touching == {i \in DOMAIN argv : C8_Touches(argv[i], s)} IN
    IF touching = {} THEN 0 ELSE CHOOSE i \in touching : \A j \in touching : j <= i

\* C8: with the flag table of boolean_flag('debug', 'X.t'), after
\* parse_command_line every setting has the value given by the last token that
\* touches it (--debug gives True, --no-debug gives False, a key-value token its
\* value), and keeps its value when no token touches it.
C8_LastTokenWins ==
    (last.op = "parse_command_line" /\ last.raised = "")
    => \A s \in {"t", "n"} :
         LET i == C8_LastTouch(last.argv, s) IN
         IF i = 0
         THEN /\ Has(Canonical, "X", s) <=> Has(last.before, "X", s)
              /\ Resolve(Canonical, "X", s) = Resolve(last.before, "X", s)
         ELSE /\ Has(Canonical, "X", s)
              /\ Canonical["X"][s] = C8_Value(last.argv[i])

C8_Witness ==
    /\ last.op = "parse_command_line"
    /\ last.argv = <<T_debug, T_n1, T_no_debug>>
    /\ Has(Canonical, "X", "t") /\ Canonical["X"]["t"] = 0
    /\ Has(Canonical, "X", "n") /\ Canonical["X"]["n"] = 1

\* C9: the fragment passed to update_config, the object that was canonical
\* before the call and the fragment merged by the call before all have the
\* contents they had when they were handed over.
C9_InputsKeepTheirContents ==
    \A i \in DOMAIN held : i \in DOMAIN heap /\ heap[i] = held[i]

C9_Witness ==
    /\ last.updated
    /\ Cardinality(DOMAIN held) = 3
    /\ config # last.prev
    /\ Canonical # last.before
    /\ last.incoming # EmptyTree

\* C10: whenever _log_level_changed runs, init_logging has created the logger.
C10_HookRunsAfterInitLogging ==
    ~last.hook_without_logger

====
